---- MODULE Spec2Model ----
(***************************************************************************)
(* Storage layer of the chat application: the two implementations of      *)
(* IStorage, MemStorage (JavaScript Maps) and PostgresStorage (drizzle     *)
(* queries against the users and messages tables).                        *)
(*                                                                         *)
(* A behaviour runs ONE of the two implementations, chosen in Init by the  *)
(* variable storage (the class `export const storage = new ...()` builds), *)
(* so a property checked under Spec is checked of both classes.            *)
(*                                                                         *)
(* The request router (registerRoutes) is modelled on top of it: a request *)
(* is matched against the routes in registration order and its handler    *)
(* runs as one step, except the sign-up handler, which is split at its     *)
(* awaits. Each subsystem has its own specification (Spec, UserSpec,       *)
(* SignupSpec, RaceSpec, ThemeSpec, PresenceSpec, HttpSpec).               *)
(*                                                                         *)
(* Nullable values are options: Null is <<>>, a present value v is <<v>>.  *)
(* The database is assumed to execute every statement it is sent.          *)
(***************************************************************************)
EXTENDS Integers, Sequences, FiniteSets, TLC

\* ------------------------------------------------------------------ bounds
\* createMessage calls per behaviour; callers name the ids 1..MaxMessages
MaxMessages == 2
\* wall-clock readings: 0..MaxTime
MaxTime == 1
\* createUser calls per behaviour
MaxUsers == 3
\* sign-up handlers waiting at an await at the same time
MaxSignups == 2
\* callers of setActiveTheme name the themeIds 0..MaxThemeId
MaxThemeId == 8
\* presence: the clock, read in minutes, runs from 0 to MaxMinutes
MaxMinutes == 6
\* presence: users registered per behaviour
MaxOnline == 2
\* 5 * 60 * 1000 ms, in minutes
ActiveWindow == 5

VARIABLES
  storage,           \* which IStorage implementation `storage` is
  now,               \* the wall clock new Date() reads
  memMessages,       \* MemStorage.messages: Map entries in insertion order
  currentMessageId,  \* MemStorage.currentMessageId
  pgMessages,        \* the rows of the messages table
  pgMessagesSeq,     \* the last value of the messages.id sequence
  memUsers,          \* MemStorage.users: Map entries in insertion order
  currentUserId,     \* MemStorage.currentUserId
  pgUsers,           \* the rows of the users table
  pgUsersSeq,        \* the last value of the users.id sequence
  ret,               \* the storage call that made this step and what it returned
  last,              \* history: that call's arguments, when it succeeded
  deletedIds,        \* history: ids of the messages removed so far
  issuedUserIds,     \* history: ids returned by createUser, in call order
  themes,            \* the themes Map: entries in insertion order
  currentTheme,      \* the currentTheme field
  userActivity,      \* the userActivity Map: entries in insertion order
  response,          \* the HTTP response the step sent, if it sent one
  signups            \* the sign-up handlers waiting at an await

vars == <<storage, now, memMessages, currentMessageId, pgMessages, pgMessagesSeq,
          memUsers, currentUserId, pgUsers, pgUsersSeq, ret, last, deletedIds,
          issuedUserIds, themes, currentTheme, userActivity, response, signups>>

messageVars == <<memMessages, currentMessageId, pgMessages, pgMessagesSeq, deletedIds>>

userVars == <<memUsers, currentUserId, pgUsers, pgUsersSeq, issuedUserIds>>

themeVars == <<themes, currentTheme>>

\* what the storage operations on messages and on sign-up data never touch
otherVars == <<themeVars, userActivity, response, signups>>

\* ------------------------------------------------------------------ values
Null == <<>>

Some(v) == <<v>>

\* the userIds callers supply: ann is 1, bob is 2
UserIds == {1, 2}

MessageIds == 1..MaxMessages

Times == 0..MaxTime

\* `x || null` on an optional string: undefined (absent) and "" are falsy
OrNull(x) == IF x = Null \/ x = Some("") THEN Null ELSE x

\* { ...a, ...b }: the fields of b over those of a
Spread(a, b) ==
  [f \in (DOMAIN a) \cup (DOMAIN b) |-> IF f \in DOMAIN b THEN b[f] ELSE a[f]]

\* the display name (first and last name) the chat client sends with its userId
UsernameOf(userId) == IF userId = 1 THEN "Ann Lee" ELSE "Bob Ray"

\* InsertMessage payloads, one per client: odd userIds post a text message,
\* even userIds share a file
InsertInput(u) ==
  IF u % 2 = 1
    THEN [content |-> "hello", username |-> UsernameOf(u), userId |-> u,
          attachmentUrl |-> Null, attachmentType |-> Null, attachmentName |-> Null]
    ELSE [content |-> "Shared: a.png", username |-> UsernameOf(u), userId |-> u,
          attachmentUrl |-> Some("/uploads/a.png"), attachmentType |-> Some("image"),
          attachmentName |-> Some("a.png")]

InsertInputs == { InsertInput(u) : u \in UserIds }

\* UpdateMessage payloads: the edited content, nothing else
UpdateInputs == { [content |-> "hello world"] }

\* what a call returns: the operation, whether it succeeded (a record, or true,
\* came back) and the records that came back
Result(op, ok, rows) == [op |-> op, ok |-> ok, rows |-> rows]

\* the step was not a storage call
NoResult == Result("none", FALSE, <<>>)

\* the (id, userId) arguments of a message call that succeeded (createMessage:
\* the id it assigned); NoCall for any other step
Call(id, userId) == [id |-> id, userId |-> userId]

NoCall == Call(0, 0)

\* res.status(status).json(body) with an object for body
Response(status, body) == [status |-> status, type |-> "object", body |-> body]

\* res.json(body) with an array of objects for body
ResponseArray(status, body) == [status |-> status, type |-> "array", body |-> body]

\* res.json(body) with a number for body
ResponseNumber(status, body) == [status |-> status, type |-> "number", body |-> body]

\* res.status(status).send()
ResponseEmpty(status) == [status |-> status, type |-> "none", body |-> Null]

\* a response that registerRoutes does not send: a page, or an error page
ResponsePage(status) == [status |-> status, type |-> "html", body |-> Null]

\* the step was not a request handler sending its response
NoResponse == ResponseEmpty(0)

\* ------------------------------------------------------------------ MemStorage: messages
\* Map.get: the entry under key id, or undefined
MapGet(entries, id) ==
  LET hits == SelectSeq(entries, LAMBDA e : e.id = id)
  IN  IF hits = <<>> THEN Null ELSE Some(hits[1])

\* Map.set: an existing key keeps its place, a new key goes last
MapSet(entries, id, value) ==
  IF \E i \in 1..Len(entries) : entries[i].id = id
    THEN [i \in 1..Len(entries) |-> IF entries[i].id = id THEN value ELSE entries[i]]
    ELSE Append(entries, value)

\* Map.delete
MapDelete(entries, id) == SelectSeq(entries, LAMBDA e : e.id # id)

\* one step of a stable sort: m goes behind every element not greater than it
InsertByCreatedAt(sorted, m) ==
  LET keep == { i \in 1..Len(sorted) : sorted[i].createdAt <= m.createdAt }
      k == IF keep = {} THEN 0 ELSE CHOOSE i \in keep : \A j \in keep : j <= i
  IN  SubSeq(sorted, 1, k) \o <<m>> \o SubSeq(sorted, k + 1, Len(sorted))

\* Array.prototype.sort by createdAt (stable)
RECURSIVE SortByCreatedAt(_)
SortByCreatedAt(s) ==
  IF s = <<>> THEN <<>>
  ELSE InsertByCreatedAt(SortByCreatedAt(SubSeq(s, 1, Len(s) - 1)), s[Len(s)])

\* mutant: the sort is left out, the Map's insertion order is returned
MemGetMessages_Unsorted(entries) == entries

MemGetMessages(entries) == SortByCreatedAt(entries)

MemGetMessageById(entries, id) == MapGet(entries, id)

\* the record createMessage stores under the fresh id
MemNewMessage(insertMessage, id, t) ==
  [ Spread(insertMessage, [id |-> id, createdAt |-> t, updatedAt |-> Null])
      EXCEPT !.attachmentUrl = OrNull(insertMessage.attachmentUrl),
             !.attachmentType = OrNull(insertMessage.attachmentType),
             !.attachmentName = OrNull(insertMessage.attachmentName) ]

MemCreateMessage(entries, nextId, insertMessage, t) ==
  LET message == MemNewMessage(insertMessage, nextId, t)
  IN  [entries |-> MapSet(entries, nextId, message), nextId |-> nextId + 1,
       ret |-> Result("createMessage", TRUE, <<message>>)]

\* mutant: the ownership test is left out of the guard
MemUpdateMessage_NoOwnerCheck(entries, id, userId, updates, t) ==
  LET message == MapGet(entries, id)
  IN  IF message = Null
        THEN [entries |-> entries, ret |-> Result("updateMessage", FALSE, <<>>)]
        ELSE LET updatedMessage ==
                   [Spread(message[1], updates) EXCEPT !.updatedAt = Some(t)]
             IN  [entries |-> MapSet(entries, id, updatedMessage),
                  ret |-> Result("updateMessage", TRUE, <<updatedMessage>>)]

MemUpdateMessage(entries, id, userId, updates, t) ==
  LET message == MapGet(entries, id)
  IN  IF message = Null \/ message[1].userId # userId
        THEN [entries |-> entries, ret |-> Result("updateMessage", FALSE, <<>>)]
        ELSE LET updatedMessage ==
                   [Spread(message[1], updates) EXCEPT !.updatedAt = Some(t)]
             IN  [entries |-> MapSet(entries, id, updatedMessage),
                  ret |-> Result("updateMessage", TRUE, <<updatedMessage>>)]

\* mutant: the owner's delete reports success without removing the entry
MemDeleteMessage_KeepsEntry(entries, id, userId) ==
  LET message == MapGet(entries, id)
  IN  IF message = Null \/ message[1].userId # userId
        THEN [entries |-> entries, ret |-> Result("deleteMessage", FALSE, <<>>)]
        ELSE [entries |-> entries, ret |-> Result("deleteMessage", TRUE, <<>>)]

MemDeleteMessage(entries, id, userId) ==
  LET message == MapGet(entries, id)
  IN  IF message = Null \/ message[1].userId # userId
        THEN [entries |-> entries, ret |-> Result("deleteMessage", FALSE, <<>>)]
        ELSE [entries |-> MapDelete(entries, id),
              ret |-> Result("deleteMessage", TRUE, <<>>)]

\* ------------------------------------------------------------------ PostgresStorage: messages
\* eq(column, value): the SQL condition object drizzle builds
SqlEq(column, value) == [column |-> column, value |-> value]

\* JavaScript `a && b`: a when a is falsy, else b. An SQL condition object is
\* an object, and every object is truthy.
JsTruthy(a) == a \in [column : STRING, value : Int]

JsAnd(a, b) == IF JsTruthy(a) THEN b ELSE a

\* WHERE condition: the rows of the table the condition selects
SqlWhere(rows, condition) == { r \in rows : r[condition.column] = condition.value }

\* the WHERE condition updateMessage and deleteMessage hand to drizzle
OwnedMessageCondition(id, userId) == JsAnd(SqlEq("id", id), SqlEq("userId", userId))

\* INSERT INTO messages: the id column is serial, createdAt defaults to now()
DbInsertMessage(values, seq, t) ==
  Spread(values, [id |-> seq + 1, createdAt |-> t])

PgCreateMessage(rows, seq, insertMessage, t) ==
  LET values ==
        [ Spread(insertMessage, [updatedAt |-> Null])
            EXCEPT !.attachmentUrl = OrNull(insertMessage.attachmentUrl),
                   !.attachmentType = OrNull(insertMessage.attachmentType),
                   !.attachmentName = OrNull(insertMessage.attachmentName) ]
      row == DbInsertMessage(values, seq, t)
  IN  [rows |-> rows \cup {row}, seq |-> seq + 1,
       ret |-> Result("createMessage", TRUE, <<row>>)]

\* UPDATE messages SET ...updates, updatedAt = now WHERE ... RETURNING *:
\* the table afterwards and the rows returned
PgUpdateMessage(rows, id, userId, updates, t) ==
  LET hit == SqlWhere(rows, OwnedMessageCondition(id, userId))
      set(r) == Spread(r, Spread(updates, [updatedAt |-> Some(t)]))
  IN  [rows |-> (rows \ hit) \cup { set(r) : r \in hit },
       returning |-> { set(r) : r \in hit }]

\* DELETE FROM messages WHERE ... RETURNING *
PgDeleteMessage(rows, id, userId) ==
  LET hit == SqlWhere(rows, OwnedMessageCondition(id, userId))
  IN  [rows |-> rows \ hit, returning |-> hit]

\* the sequences that list every element of the set S once
Orderings(S) ==
  { s \in [1..Cardinality(S) -> S] : \A i, j \in DOMAIN s : i # j => s[i] # s[j] }

\* SELECT * FROM messages ORDER BY created_at: every answer the database may
\* give; the order of rows with equal created_at is not determined
PgGetMessages(rows) ==
  { s \in Orderings(rows) :
      \A i, j \in DOMAIN s : i < j => s[i].createdAt <= s[j].createdAt }

\* SELECT * FROM messages WHERE id = ... LIMIT 1, then result[0]
PgGetMessageById(rows, id) ==
  LET hit == SqlWhere(rows, SqlEq("id", id))
  IN  IF hit = {} THEN Null ELSE Some(CHOOSE r \in hit : TRUE)

\* ------------------------------------------------------------------ users
\* SignUpData payloads
SignUpInputs ==
  { [username |-> n, email |-> e, password |-> "secret", firstName |-> "A",
     lastName |-> "B"] : n \in {"a", "b"}, e \in {"a@x.com", "b@x.com"} }

\* mutant: currentUserId is read but not incremented
MemCreateUser_NoIncrement(entries, nextId, signUpData, t) ==
  LET user == Spread(signUpData, [id |-> nextId, avatar |-> Null, createdAt |-> t])
  IN  [entries |-> MapSet(entries, nextId, user), nextId |-> nextId,
       ret |-> Result("createUser", TRUE, <<user>>)]

MemCreateUser(entries, nextId, signUpData, t) ==
  LET user == Spread(signUpData, [id |-> nextId, avatar |-> Null, createdAt |-> t])
  IN  [entries |-> MapSet(entries, nextId, user), nextId |-> nextId + 1,
       ret |-> Result("createUser", TRUE, <<user>>)]

\* INSERT INTO users: the id column is serial, createdAt defaults to now()
DbInsertUser(values, seq, t) ==
  Spread(values, [id |-> seq + 1, createdAt |-> t])

\* mutant: the insert leaves the table alone when the email is taken and
\* gives back the row that holds it
PgCreateUser_UniqueEmail(rows, seq, signUpData, t) ==
  LET values == Spread(signUpData, [avatar |-> Null, lastActivity |-> Null])
      row == DbInsertUser(values, seq, t)
      taken == SqlWhere(rows, SqlEq("email", signUpData.email))
  IN  IF taken = {}
        THEN [rows |-> rows \cup {row}, seq |-> seq + 1,
              ret |-> Result("createUser", TRUE, <<row>>)]
        ELSE [rows |-> rows, seq |-> seq + 1,
              ret |-> Result("createUser", TRUE, <<CHOOSE r \in taken : TRUE>>)]

PgCreateUser(rows, seq, signUpData, t) ==
  LET values == Spread(signUpData, [avatar |-> Null, lastActivity |-> Null])
      row == DbInsertUser(values, seq, t)
  IN  [rows |-> rows \cup {row}, seq |-> seq + 1,
       ret |-> Result("createUser", TRUE, <<row>>)]

\* mutant: the password stays in
WithoutPassword_Keeps(user) == user

\* const { password, ...userWithoutPassword } = user
WithoutPassword(user) == [f \in (DOMAIN user) \ {"password"} |-> user[f]]

\* Map.get(id)
MemGetUser(entries, id) == MapGet(entries, id)

\* Array.from(users.values()).find(user => user.email === email)
MemGetUserByEmail(entries, email) ==
  LET hits == SelectSeq(entries, LAMBDA user : user.email = email)
  IN  IF hits = <<>> THEN Null ELSE Some(hits[1])

\* mutant: the username lookup finds nobody
MemGetUserByUsername_FindsNobody(entries, username) == Null

MemGetUserByUsername(entries, username) ==
  LET hits == SelectSeq(entries, LAMBDA user : user.username = username)
  IN  IF hits = <<>> THEN Null ELSE Some(hits[1])

\* SELECT * FROM users WHERE ... LIMIT 1, then result[0]: every value the
\* query may give (no ORDER BY: any one of the rows that match)
PgSelectUser(rows, condition) ==
  LET hit == SqlWhere(rows, condition)
  IN  IF hit = {} THEN {Null} ELSE { Some(r) : r \in hit }

PgGetUser(rows, id) == PgSelectUser(rows, SqlEq("id", id))

PgGetUserByEmail(rows, email) == PgSelectUser(rows, SqlEq("email", email))

PgGetUserByUsername(rows, username) == PgSelectUser(rows, SqlEq("username", username))

\* the password test of authenticateUser on what getUserByEmail found (the
\* same code in both classes): the user, or null
AuthenticateFound(user, credentials) ==
  IF user = Null THEN Null
  ELSE IF user[1].password # credentials.password THEN Null
  ELSE user

\* ------------------------------------------------------------------ themes
\* initializeThemes: the default themes, set into the Map in this order
\* (createdAt is the time of construction)
DefaultThemes ==
  << [id |-> 1, name |-> "Classic Blue",  isActive |-> TRUE,  createdAt |-> 0],
     [id |-> 2, name |-> "Sunset Orange", isActive |-> FALSE, createdAt |-> 0],
     [id |-> 3, name |-> "Forest Green",  isActive |-> FALSE, createdAt |-> 0],
     [id |-> 4, name |-> "Purple Dreams", isActive |-> FALSE, createdAt |-> 0],
     [id |-> 5, name |-> "Rose Gold",     isActive |-> FALSE, createdAt |-> 0],
     [id |-> 6, name |-> "Dark Mode",     isActive |-> FALSE, createdAt |-> 0] >>

\* new Error(`Theme with ID ${themeId} not found`)
ThemeNotFound(themeId) == [message |-> <<"Theme with ID ", themeId, " not found">>]

\* mutant: an unknown themeId falls back to the first theme
SetActiveThemeIn_FallsBack(catalogue, current, themeId) ==
  LET theme == MapGet(catalogue, themeId)
  IN  IF theme = Null
        THEN [currentTheme |-> catalogue[1],
              ret |-> Result("setActiveTheme", FALSE, <<ThemeNotFound(themeId)>>)]
        ELSE [currentTheme |-> theme[1],
              ret |-> Result("setActiveTheme", TRUE, <<theme[1]>>)]

\* mutant: the theme is returned but not made the current one
SetActiveThemeIn_NotAssigned(catalogue, current, themeId) ==
  LET theme == MapGet(catalogue, themeId)
  IN  IF theme = Null
        THEN [currentTheme |-> current,
              ret |-> Result("setActiveTheme", FALSE, <<ThemeNotFound(themeId)>>)]
        ELSE [currentTheme |-> current,
              ret |-> Result("setActiveTheme", TRUE, <<theme[1]>>)]

\* setActiveTheme on the fields themes and currentTheme (the same code in both
\* classes): a throw is a result that is not ok and carries the error
SetActiveThemeIn(catalogue, current, themeId) ==
  LET theme == MapGet(catalogue, themeId)
  IN  IF theme = Null
        THEN [currentTheme |-> current,
              ret |-> Result("setActiveTheme", FALSE, <<ThemeNotFound(themeId)>>)]
        ELSE [currentTheme |-> theme[1],
              ret |-> Result("setActiveTheme", TRUE, <<theme[1]>>)]

\* ------------------------------------------------------------------ presence
\* an entry of the userActivity Map: userId -> the Date of the last heartbeat
Beat(userId, t) == [id |-> userId, at |-> t]

\* getAllUsers: every value it may return (SELECT without ORDER BY)
PgGetAllUsers(rows) ==
  { [i \in DOMAIN s |-> WithoutPassword(s[i])] : s \in Orderings(rows) }

\* mutant: a user without a heartbeat is not active
IsUserActive_NeedsHeartbeat(activity, userId, t) ==
  LET fiveMinutesAgo == t - ActiveWindow
      lastActive == MapGet(activity, userId)
  IN  lastActive # Null /\ lastActive[1].at > fiveMinutesAgo

\* PostgresStorage.isUserActive; a Date is truthy whatever its time
IsUserActive(activity, userId, t) ==
  LET fiveMinutesAgo == t - ActiveWindow
      lastActive == MapGet(activity, userId)
  IN  lastActive = Null \/ lastActive[1].at > fiveMinutesAgo

PgGetUsersCount(rows, activity, t) ==
  Cardinality({ user \in rows : IsUserActive(activity, user.id, t) })

\* users.size
MemGetUsersCount(entries) == Len(entries)

\* getOnlineUsers: every value it may return (SELECT without ORDER BY); the
\* Map's Date, or null, is put over the row's lastActivity
PgGetOnlineUsers(rows, activity) ==
  { [i \in DOMAIN s |->
       LET lastActive == MapGet(activity, s[i].id)
       IN  Spread(WithoutPassword(s[i]),
                  [lastActivity |-> IF lastActive = Null THEN Null
                                    ELSE Some(lastActive[1].at)])] :
    s \in Orderings(rows) }

\* getOnlineUsers: the entries of userActivity younger than five minutes, in
\* the Map's order, each with its user when there is one
RECURSIVE MemGetOnlineUsers(_, _, _)
MemGetOnlineUsers(entries, activity, t) ==
  IF activity = <<>> THEN <<>>
  ELSE LET fiveMinutesAgo == t - ActiveWindow
           user == MemGetUser(entries, activity[1].id)
           rest == MemGetOnlineUsers(entries, Tail(activity), t)
       IN  IF activity[1].at > fiveMinutesAgo /\ user # Null
             THEN <<WithoutPassword(user[1])>> \o rest
             ELSE rest

MemUpdateUserActivity(activity, userId, t) == MapSet(activity, userId, Beat(userId, t))

\* userActivity.set, then UPDATE users SET last_activity = now WHERE id = userId
PgUpdateUserActivity(rows, activity, userId, t) ==
  LET hit == SqlWhere(rows, SqlEq("id", userId))
  IN  [activity |-> MapSet(activity, userId, Beat(userId, t)),
       rows |-> (rows \ hit) \cup { Spread(r, [lastActivity |-> Some(t)]) : r \in hit }]

\* ------------------------------------------------------------------ IStorage, as built
\* what getUsersCount() returns in this state
GetUsersCount ==
  IF storage = "MemStorage" THEN MemGetUsersCount(memUsers)
  ELSE PgGetUsersCount(pgUsers, userActivity, now)

\* what getUsersCount() would return in this state were user not registered
GetUsersCountWithout(user) ==
  IF storage = "MemStorage" THEN MemGetUsersCount(MapDelete(memUsers, user.id))
  ELSE PgGetUsersCount(pgUsers \ {user}, userActivity, now)

\* every value getOnlineUsers() may return in this state
GetOnlineUsers ==
  IF storage = "MemStorage" THEN { MemGetOnlineUsers(memUsers, userActivity, now) }
  ELSE PgGetOnlineUsers(pgUsers, userActivity)

\* what getActiveTheme() returns in this state
GetActiveTheme == currentTheme

\* the messages the running implementation holds
Stored ==
  IF storage = "MemStorage"
    THEN { memMessages[i] : i \in 1..Len(memMessages) }
    ELSE pgMessages

StoredIds == { m.id : m \in Stored }

\* every value getMessages() may return in this state
GetMessages ==
  IF storage = "MemStorage" THEN { MemGetMessages(memMessages) }
  ELSE PgGetMessages(pgMessages)

\* the users the running implementation holds
StoredUsers ==
  IF storage = "MemStorage"
    THEN { memUsers[i] : i \in 1..Len(memUsers) }
    ELSE pgUsers

GetMessageById(id) ==
  IF storage = "MemStorage" THEN MemGetMessageById(memMessages, id)
  ELSE PgGetMessageById(pgMessages, id)

\* every value getUserByEmail(email) may return in this state
GetUserByEmail(email) ==
  IF storage = "MemStorage" THEN { MemGetUserByEmail(memUsers, email) }
  ELSE PgGetUserByEmail(pgUsers, email)

\* every value getUser(id) may return in this state; id is Null for NaN,
\* which no Map key and no row equals (the query fails and getUser catches)
GetUser(id) ==
  IF id = Null THEN {Null}
  ELSE IF storage = "MemStorage" THEN { MemGetUser(memUsers, id[1]) }
  ELSE PgGetUser(pgUsers, id[1])

\* every value authenticateUser(credentials) may return in this state
AuthenticateUser(credentials) ==
  { AuthenticateFound(user, credentials) : user \in GetUserByEmail(credentials.email) }

\* every value getUserByUsername(username) may return in this state
GetUserByUsername(username) ==
  IF storage = "MemStorage" THEN { MemGetUserByUsername(memUsers, username) }
  ELSE PgGetUserByUsername(pgUsers, username)

\* the messages a store holds, as a set: the Map's values, or the table's rows
MessagesOf(store) ==
  IF storage = "MemStorage"
    THEN { store.entries[i] : i \in 1..Len(store.entries) }
    ELSE store.rows

\* the store of this state
MessageStore == [entries |-> memMessages, rows |-> pgMessages]

\* updateMessage(id, userId, updates) called at time t on a store: the store
\* afterwards, and whether the call returned a message
UpdateMessageOn(store, id, userId, updates, t) ==
  IF storage = "MemStorage"
    THEN LET r == MemUpdateMessage(store.entries, id, userId, updates, t)
         IN  [entries |-> r.entries, rows |-> store.rows, ok |-> r.ret.ok]
    ELSE LET r == PgUpdateMessage(store.rows, id, userId, updates, t)
         IN  [entries |-> store.entries, rows |-> r.rows, ok |-> r.returning # {}]

\* ------------------------------------------------------------------ state machine
Init ==
  /\ storage \in {"MemStorage", "PostgresStorage"}
  /\ now = 0
  /\ memMessages = <<>>
  /\ currentMessageId = 1
  /\ pgMessages = {}
  /\ pgMessagesSeq = 0
  /\ memUsers = <<>>
  /\ currentUserId = 1
  /\ pgUsers = {}
  /\ pgUsersSeq = 0
  /\ ret = NoResult
  /\ last = NoCall
  /\ deletedIds = {}
  /\ issuedUserIds = <<>>
  /\ themes = DefaultThemes
  /\ currentTheme = MapGet(themes, 1)[1]
  /\ userActivity = <<>>
  /\ response = NoResponse
  /\ signups = <<>>

\* time passes
Tick ==
  /\ now < MaxTime
  /\ now' = now + 1
  /\ ret' = NoResult
  /\ last' = NoCall
  /\ UNCHANGED <<storage, messageVars, userVars>>

\* the wall clock is set back (it is not monotonic)
ClockSetBack ==
  /\ now > 0
  /\ now' \in 0..(now - 1)
  /\ ret' = NoResult
  /\ last' = NoCall
  /\ UNCHANGED <<storage, messageVars, userVars>>

CreateMessage(insertMessage) ==
  /\ IF storage = "MemStorage"
       THEN /\ currentMessageId <= MaxMessages
            /\ LET r == MemCreateMessage(memMessages, currentMessageId, insertMessage, now)
               IN  /\ memMessages' = r.entries
                   /\ currentMessageId' = r.nextId
                   /\ ret' = r.ret
            /\ UNCHANGED <<pgMessages, pgMessagesSeq>>
       ELSE /\ pgMessagesSeq < MaxMessages
            /\ LET r == PgCreateMessage(pgMessages, pgMessagesSeq, insertMessage, now)
               IN  /\ pgMessages' = r.rows
                   /\ pgMessagesSeq' = r.seq
                   /\ ret' = r.ret
            /\ UNCHANGED <<memMessages, currentMessageId>>
  /\ last' = Call(ret'.rows[1].id, insertMessage.userId)
  /\ UNCHANGED <<storage, now, userVars, deletedIds>>

UpdateMessage(id, userId, updates) ==
  /\ IF storage = "MemStorage"
       THEN /\ LET r == MemUpdateMessage(memMessages, id, userId, updates, now)
               IN  /\ memMessages' = r.entries
                   /\ ret' = r.ret
            /\ UNCHANGED pgMessages
       ELSE /\ LET r == PgUpdateMessage(pgMessages, id, userId, updates, now)
               IN  /\ pgMessages' = r.rows
                   \* result[0] || null: the database returns the rows in its own order
                   /\ \/ /\ r.returning = {}
                         /\ ret' = Result("updateMessage", FALSE, <<>>)
                      \/ \E first \in r.returning :
                            ret' = Result("updateMessage", TRUE, <<first>>)
            /\ UNCHANGED memMessages
  /\ last' = IF ret'.ok THEN Call(id, userId) ELSE NoCall
  /\ UNCHANGED <<storage, now, currentMessageId, pgMessagesSeq, userVars>>
  /\ deletedIds' = deletedIds \cup (StoredIds \ StoredIds')

DeleteMessage(id, userId) ==
  /\ IF storage = "MemStorage"
       THEN /\ LET r == MemDeleteMessage(memMessages, id, userId)
               IN  /\ memMessages' = r.entries
                   /\ ret' = r.ret
            /\ UNCHANGED pgMessages
       ELSE /\ LET r == PgDeleteMessage(pgMessages, id, userId)
               IN  /\ pgMessages' = r.rows
                   \* result.length > 0
                   /\ ret' = Result("deleteMessage", r.returning # {}, <<>>)
            /\ UNCHANGED memMessages
  /\ last' = IF ret'.ok THEN Call(id, userId) ELSE NoCall
  /\ UNCHANGED <<storage, now, currentMessageId, pgMessagesSeq, userVars>>
  /\ deletedIds' = deletedIds \cup (StoredIds \ StoredIds')

Next ==
  \/ Tick /\ UNCHANGED otherVars
  \/ ClockSetBack /\ UNCHANGED otherVars
  \/ \E insertMessage \in InsertInputs :
       CreateMessage(insertMessage) /\ UNCHANGED otherVars
  \/ \E id \in MessageIds, userId \in UserIds, updates \in UpdateInputs :
       UpdateMessage(id, userId, updates) /\ UNCHANGED otherVars
  \/ \E id \in MessageIds, userId \in UserIds :
       DeleteMessage(id, userId) /\ UNCHANGED otherVars

Spec == Init /\ [][Next]_vars

CreateUser(signUpData) ==
  /\ IF storage = "MemStorage"
       THEN /\ currentUserId <= MaxUsers
            /\ LET r == MemCreateUser(memUsers, currentUserId, signUpData, now)
               IN  /\ memUsers' = r.entries
                   /\ currentUserId' = r.nextId
                   /\ ret' = r.ret
            /\ UNCHANGED <<pgUsers, pgUsersSeq>>
       ELSE /\ pgUsersSeq < MaxUsers
            /\ LET r == PgCreateUser(pgUsers, pgUsersSeq, signUpData, now)
               IN  /\ pgUsers' = r.rows
                   /\ pgUsersSeq' = r.seq
                   /\ ret' = r.ret
            /\ UNCHANGED <<memUsers, currentUserId>>
  /\ last' = NoCall
  /\ issuedUserIds' = Append(issuedUserIds, ret'.rows[1].id)
  /\ UNCHANGED <<storage, now, messageVars>>

\* the user operations, for the claims about users
UserNext ==
  \/ Tick /\ UNCHANGED otherVars
  \/ ClockSetBack /\ UNCHANGED otherVars
  \/ \E signUpData \in SignUpInputs : CreateUser(signUpData) /\ UNCHANGED otherVars

UserSpec == Init /\ [][UserNext]_vars

\* ------------------------------------------------------------------ themes
SetActiveTheme(themeId) ==
  /\ LET r == SetActiveThemeIn(themes, currentTheme, themeId)
     IN  /\ currentTheme' = r.currentTheme
         /\ ret' = r.ret
  /\ last' = NoCall
  /\ UNCHANGED <<storage, now, messageVars, userVars, themes>>

ThemeNext ==
  \/ Tick /\ UNCHANGED otherVars
  \/ ClockSetBack /\ UNCHANGED otherVars
  \/ \E themeId \in 0..MaxThemeId :
       SetActiveTheme(themeId) /\ UNCHANGED <<userActivity, response, signups>>

ThemeSpec == Init /\ [][ThemeNext]_vars

\* ------------------------------------------------------------------ presence
\* a minute passes
MinutePasses ==
  /\ now < MaxMinutes
  /\ now' = now + 1
  /\ ret' = NoResult
  /\ last' = NoCall
  /\ UNCHANGED <<storage, messageVars, userVars>>

\* a user registers
Register ==
  /\ Cardinality(StoredUsers) < MaxOnline
  /\ CreateUser([username |-> "a", email |-> "a@x.com", password |-> "secret",
                 firstName |-> "A", lastName |-> "B"])

\* the heartbeat
UpdateUserActivity(userId) ==
  /\ IF storage = "MemStorage"
       THEN /\ userActivity' = MemUpdateUserActivity(userActivity, userId, now)
            /\ UNCHANGED pgUsers
       ELSE LET r == PgUpdateUserActivity(pgUsers, userActivity, userId, now)
            IN  /\ userActivity' = r.activity
                /\ pgUsers' = r.rows
  /\ ret' = Result("updateUserActivity", TRUE, <<>>)
  /\ last' = NoCall
  /\ UNCHANGED <<storage, now, messageVars, memUsers, currentUserId, pgUsersSeq,
                 issuedUserIds>>

PresenceNext ==
  \/ MinutePasses /\ UNCHANGED otherVars
  \/ Register /\ UNCHANGED otherVars
  \/ \E userId \in UserIds :
       UpdateUserActivity(userId) /\ UNCHANGED <<themeVars, response, signups>>

PresenceSpec == Init /\ [][PresenceNext]_vars

\* ------------------------------------------------------------------ POST /api/auth/signup
\* request bodies: the sign-up payloads and one without a password
SignUpBodies ==
  SignUpInputs \cup {[username |-> "a", email |-> "a@x.com", firstName |-> "A", lastName |-> "B"]}

\* signUpSchema.parse(req.body): the validated data, or Null for a ZodError
SignUpSchemaParse(body) ==
  IF DOMAIN body = {"username", "email", "password", "firstName", "lastName"}
    THEN Some(body) ELSE Null

\* a handler waiting for the storage call `at` to come back
Handler(data, at) == [data |-> data, at |-> at]

\* the sequence s without its i-th element
Without(s, i) == SubSeq(s, 1, i - 1) \o SubSeq(s, i + 1, Len(s))

\* which requests the process takes up while handlers wait: a MemStorage
\* promise is settled when it is awaited, so the handler runs on in the
\* microtask queue and ends before the next request's event is taken up; a
\* PostgresStorage promise waits for the database, and other requests run
MayAccept(inFlight) ==
  IF storage = "MemStorage" THEN inFlight = 0 ELSE inFlight < MaxSignups

\* the request arrives: validation, then the handler awaits getUserByEmail
SignupReceive(body, mayAccept) ==
  /\ mayAccept
  /\ LET validatedData == SignUpSchemaParse(body)
     IN  IF validatedData = Null
           THEN /\ response' = Response(400, [message |-> "Validation error"])
                /\ UNCHANGED signups
           ELSE /\ signups' = Append(signups, Handler(validatedData[1], "getUserByEmail"))
                /\ response' = NoResponse
  /\ ret' = NoResult
  /\ last' = NoCall
  /\ UNCHANGED <<storage, now, messageVars, userVars, themeVars, userActivity>>

\* getUserByEmail came back
SignupEmailChecked(i) ==
  /\ signups[i].at = "getUserByEmail"
  /\ \E existingUserByEmail \in GetUserByEmail(signups[i].data.email) :
       IF existingUserByEmail # Null
         THEN /\ response' = Response(400, [message |-> "User with this email already exists"])
              /\ signups' = Without(signups, i)
         ELSE /\ response' = NoResponse
              /\ signups' = [signups EXCEPT ![i].at = "getUserByUsername"]
  /\ ret' = NoResult
  /\ last' = NoCall
  /\ UNCHANGED <<storage, now, messageVars, userVars, themeVars, userActivity>>

\* getUserByUsername came back
SignupUsernameChecked(i) ==
  /\ signups[i].at = "getUserByUsername"
  /\ \E existingUserByUsername \in GetUserByUsername(signups[i].data.username) :
       IF existingUserByUsername # Null
         THEN /\ response' = Response(400, [message |-> "Username already taken"])
              /\ signups' = Without(signups, i)
         ELSE /\ response' = NoResponse
              /\ signups' = [signups EXCEPT ![i].at = "createUser"]
  /\ ret' = NoResult
  /\ last' = NoCall
  /\ UNCHANGED <<storage, now, messageVars, userVars, themeVars, userActivity>>

\* createUser is executed and comes back
SignupUserCreated(i) ==
  /\ signups[i].at = "createUser"
  /\ CreateUser(signups[i].data)
  /\ response' = Response(201, WithoutPassword(ret'.rows[1]))
  /\ signups' = Without(signups, i)
  /\ UNCHANGED <<themeVars, userActivity>>

\* sign-up requests handled one after another
SignupNext ==
  \/ \E body \in SignUpBodies : SignupReceive(body, signups = <<>>)
  \/ \E i \in DOMAIN signups : SignupEmailChecked(i)
  \/ \E i \in DOMAIN signups : SignupUsernameChecked(i)
  \/ \E i \in DOMAIN signups : SignupUserCreated(i)

SignupSpec == Init /\ [][SignupNext]_vars

\* sign-up requests handled as the process takes them up
RaceNext ==
  \/ \E body \in SignUpBodies : SignupReceive(body, MayAccept(Len(signups)))
  \/ \E i \in DOMAIN signups : SignupEmailChecked(i)
  \/ \E i \in DOMAIN signups : SignupUsernameChecked(i)
  \/ \E i \in DOMAIN signups : SignupUserCreated(i)

RaceSpec == Init /\ [][RaceNext]_vars

\* ------------------------------------------------------------------ routes
\* registerRoutes: the routes in the order of their registration; a path is
\* the sequence of its segments
Routes ==
  << [method |-> "POST",   path |-> <<"api", "auth", "signup">>,  handler |-> "signup"],
     [method |-> "POST",   path |-> <<"api", "auth", "signin">>,  handler |-> "signin"],
     [method |-> "GET",    path |-> <<"api", "users", ":id">>,    handler |-> "getUser"],
     [method |-> "GET",    path |-> <<"api", "messages">>,        handler |-> "getMessages"],
     [method |-> "POST",   path |-> <<"api", "messages">>,        handler |-> "createMessage"],
     [method |-> "PATCH",  path |-> <<"api", "messages", ":id">>, handler |-> "updateMessage"],
     [method |-> "DELETE", path |-> <<"api", "messages", ":id">>, handler |-> "deleteMessage"],
     [method |-> "GET",    path |-> <<"api", "users", "count">>,  handler |-> "getUsersCount"],
     [method |-> "GET",    path |-> <<"api", "chat", "theme">>,   handler |-> "getTheme"],
     [method |-> "POST",   path |-> <<"api", "chat", "theme">>,   handler |-> "setTheme"] >>

\* the route matches the request: the same method, and segment by segment
\* the same text, a parameter (":id") matching any segment
Matches(route, method, path) ==
  /\ route.method = method
  /\ Len(route.path) = Len(path)
  /\ \A i \in DOMAIN path : route.path[i] = ":id" \/ route.path[i] = path[i]

\* the handler the router runs: that of the first registered route that
\* matches (the handlers here end the request, none calls next())
RouteOf(method, path) ==
  LET hits == { i \in DOMAIN Routes : Matches(Routes[i], method, path) }
  IN  IF hits = {} THEN "none"
      ELSE Routes[CHOOSE i \in hits : \A j \in hits : i <= j].handler

\* parseInt on a path segment: the number a decimal numeral stands for, Null
\* (NaN) for a segment that does not start with a digit
ParseInt(segment) ==
  LET hits == { n \in 0..9 : ToString(n) = segment }
  IN  IF hits = {} THEN Null ELSE Some(CHOOSE n \in hits : TRUE)

\* body.field, Null for undefined
Field(body, field) == IF field \in DOMAIN body THEN Some(body[field]) ELSE Null

\* const { field, ...rest } = body: the rest
Rest(body, field) == [f \in (DOMAIN body) \ {field} |-> body[f]]

\* !x for a number or undefined: undefined and 0 are falsy
Falsy(x) == x = Null \/ x = Some(0)

\* signInSchema.parse
SignInSchemaParse(body) ==
  IF DOMAIN body = {"email", "password"} THEN Some(body) ELSE Null

\* insertMessageSchema.parse
InsertMessageSchemaParse(body) ==
  IF {"content", "username", "userId"} \subseteq DOMAIN body THEN Some(body) ELSE Null

\* updateMessageSchema.parse: unknown keys are dropped
UpdateMessageSchemaParse(updateData) ==
  IF "content" \in DOMAIN updateData
    THEN Some([content |-> updateData.content]) ELSE Null

ValidationError == Response(400, [message |-> "Validation error"])

Request(method, path, body) == [method |-> method, path |-> path, body |-> body]

\* what a handler that only asks the storage leaves alone
readOnly == <<storage, now, messageVars, userVars, themeVars, userActivity, signups>>

\* POST /api/auth/signin
SigninRoute(body) ==
  /\ LET validatedData == SignInSchemaParse(body)
     IN  IF validatedData = Null
           THEN /\ response' = ValidationError
                /\ ret' = NoResult
           ELSE \E user \in AuthenticateUser(validatedData[1]) :
                  /\ ret' = Result("authenticateUser", user # Null, user)
                  /\ response' = IF user = Null
                                   THEN Response(401, [message |-> "Invalid email or password"])
                                   ELSE Response(200, WithoutPassword(user[1]))
  /\ last' = NoCall
  /\ UNCHANGED readOnly

\* what GET /api/users/:id sends for the user the storage returned
GetUserAnswer(user) ==
  IF user = Null
    THEN Response(404, [message |-> "User not found"])
    ELSE Response(200, WithoutPassword(user[1]))

\* GET /api/users/:id
GetUserRoute(id) ==
  /\ LET userId == ParseInt(id)
     IN  \E user \in GetUser(userId) :
           /\ ret' = Result("getUser", user # Null, user)
           /\ response' = GetUserAnswer(user)
  /\ last' = NoCall
  /\ UNCHANGED readOnly

\* what GET /api/messages sends for the list the storage returned
GetMessagesAnswer(messages) == ResponseArray(200, messages)

\* GET /api/messages
GetMessagesRoute ==
  /\ \E messages \in GetMessages :
       /\ ret' = Result("getMessages", TRUE, messages)
       /\ response' = GetMessagesAnswer(messages)
  /\ last' = NoCall
  /\ UNCHANGED readOnly

\* POST /api/messages
CreateMessageRoute(body) ==
  LET validatedData == InsertMessageSchemaParse(body)
  IN  IF validatedData = Null
        THEN /\ response' = ValidationError
             /\ ret' = NoResult
             /\ last' = NoCall
             /\ UNCHANGED readOnly
        ELSE /\ CreateMessage(validatedData[1])
             /\ response' = Response(201, ret'.rows[1])
             /\ UNCHANGED <<themeVars, userActivity, signups>>

\* what PATCH /api/messages/:id sends for the message the storage returned
UpdateMessageAnswer(updatedMessage) ==
  IF updatedMessage = Null
    THEN Response(404, [message |-> "Message not found or unauthorized"])
    ELSE Response(200, updatedMessage[1])

\* mutant: the handler does not test userId and hands undefined to the
\* storage, which finds no message of that user
UpdateMessageRoute_NoUserIdCheck(id, body) ==
  LET messageId == ParseInt(id)
      userId == Field(body, "userId")
      updateData == Rest(body, "userId")
      validatedData == UpdateMessageSchemaParse(updateData)
  IN  IF validatedData = Null
        THEN /\ response' = ValidationError
             /\ ret' = NoResult
             /\ last' = NoCall
             /\ UNCHANGED readOnly
        ELSE IF userId = Null
          THEN /\ response' = UpdateMessageAnswer(Null)
               /\ ret' = Result("updateMessage", FALSE, <<>>)
               /\ last' = NoCall
               /\ UNCHANGED readOnly
          ELSE /\ messageId # Null
               /\ UpdateMessage(messageId[1], userId[1], validatedData[1])
               /\ response' = UpdateMessageAnswer(ret'.rows)
               /\ UNCHANGED <<themeVars, userActivity, signups>>

\* PATCH /api/messages/:id
UpdateMessageRoute(id, body) ==
  LET messageId == ParseInt(id)
      userId == Field(body, "userId")
      updateData == Rest(body, "userId")
      validatedData == UpdateMessageSchemaParse(updateData)
  IN  IF Falsy(userId) \/ validatedData = Null
        THEN /\ response' = IF Falsy(userId)
                              THEN Response(400, [message |-> "User ID is required"])
                              ELSE ValidationError
             /\ ret' = NoResult
             /\ last' = NoCall
             /\ UNCHANGED readOnly
        ELSE /\ messageId # Null
             /\ UpdateMessage(messageId[1], userId[1], validatedData[1])
             /\ response' = UpdateMessageAnswer(ret'.rows)
             /\ UNCHANGED <<themeVars, userActivity, signups>>

\* what DELETE /api/messages/:id sends for the flag the storage returned
DeleteMessageAnswer(deleted) ==
  IF deleted
    THEN ResponseEmpty(204)
    ELSE Response(404, [message |-> "Message not found or unauthorized"])

\* DELETE /api/messages/:id
DeleteMessageRoute(id, body) ==
  LET messageId == ParseInt(id)
      userId == Field(body, "userId")
  IN  IF Falsy(userId)
        THEN /\ response' = Response(400, [message |-> "User ID is required"])
             /\ ret' = NoResult
             /\ last' = NoCall
             /\ UNCHANGED readOnly
        ELSE /\ messageId # Null
             /\ DeleteMessage(messageId[1], userId[1])
             /\ response' = DeleteMessageAnswer(ret'.ok)
             /\ UNCHANGED <<themeVars, userActivity, signups>>

\* what GET /api/users/count sends for the count the storage returned
UsersCountAnswer(count) == ResponseNumber(200, count)

\* GET /api/users/count
UsersCountRoute ==
  /\ ret' = Result("getUsersCount", TRUE, <<GetUsersCount>>)
  /\ response' = UsersCountAnswer(GetUsersCount)
  /\ last' = NoCall
  /\ UNCHANGED readOnly

\* GET /api/chat/theme
GetThemeRoute ==
  /\ ret' = Result("getActiveTheme", TRUE, <<GetActiveTheme>>)
  /\ response' = Response(200, GetActiveTheme)
  /\ last' = NoCall
  /\ UNCHANGED readOnly

\* a JSON value of the request body with its typeof
Json(type, value) == [type |-> type, value |-> value]

\* POST /api/chat/theme
SetThemeRoute(body) ==
  LET themeId == Field(body, "themeId")
  IN  IF themeId = Null \/ themeId[1].type # "number" \/ themeId[1].value = 0
        THEN /\ response' = Response(400, [message |-> "Theme ID is required and must be a number"])
             /\ ret' = NoResult
             /\ last' = NoCall
             /\ UNCHANGED readOnly
        ELSE /\ SetActiveTheme(themeId[1].value)
             \* the catch block answers with error.message
             /\ response' = IF ret'.ok THEN Response(200, ret'.rows[1])
                              ELSE Response(500, ret'.rows[1])
             /\ UNCHANGED <<userActivity, signups>>

\* the requests clients send (the sign-ups are those of one email)
HttpRequests ==
  { Request("POST", <<"api", "auth", "signup">>, body) :
      body \in { b \in SignUpBodies : b.email = "a@x.com" } }
  \cup { Request("POST", <<"api", "auth", "signin">>, body) :
           body \in { [email |-> "a@x.com", password |-> "secret"],
                      [email |-> "a@x.com", password |-> "wrong"],
                      [email |-> "a@x.com"] } }
  \cup { Request("GET", <<"api", "users", id>>, Null) : id \in {"1", "2", "count"} }
  \cup { Request("GET", <<"api", "messages">>, Null) }
  \cup { Request("POST", <<"api", "messages">>, body) :
           body \in InsertInputs \cup {[content |-> "hello"]} }
  \cup { Request("PATCH", <<"api", "messages", ToString(id)>>, body) :
           id \in MessageIds,
           body \in { [userId |-> u, content |-> "hello world"] : u \in UserIds }
                    \cup { [content |-> "hello world"], [userId |-> 1] } }
  \cup { Request("DELETE", <<"api", "messages", ToString(id)>>, body) :
           id \in MessageIds,
           body \in { [userId |-> u] : u \in UserIds \cup {0} }
                    \cup { [content |-> "hello world"] } }
  \cup { Request("GET", <<"api", "chat", "theme">>, Null) }
  \cup { Request("POST", <<"api", "users", ToString(id), "activity">>, Null) :
           id \in UserIds }
  \cup { Request("POST", <<"api", "chat", "theme">>, body) :
           body \in { [themeId |-> Json("number", 2)], [themeId |-> Json("number", 7)],
                      [themeId |-> Json("number", 0)], [themeId |-> Json("string", "2")],
                      [theme |-> Json("number", 2)] } }

\* no route of registerRoutes matches: no handler runs and the storage is
\* not called; the request goes on to the middleware registered after the
\* routes, which is not part of registerRoutes: it is answered 404 by
\* Express's final handler or 200 by a catch-all that serves the client page
NotRouted ==
  /\ response' \in {ResponsePage(404), ResponsePage(200)}
  /\ ret' = NoResult
  /\ last' = NoCall
  /\ UNCHANGED readOnly

\* the router hands the request to its handler
Handle(req) ==
  LET handler == RouteOf(req.method, req.path)
  IN  CASE handler = "signup" -> SignupReceive(req.body, TRUE)
        [] handler = "signin" -> SigninRoute(req.body)
        [] handler = "getUser" -> GetUserRoute(req.path[3])
        [] handler = "getMessages" -> GetMessagesRoute
        [] handler = "createMessage" -> CreateMessageRoute(req.body)
        [] handler = "updateMessage" -> UpdateMessageRoute(req.path[3], req.body)
        [] handler = "deleteMessage" -> DeleteMessageRoute(req.path[3], req.body)
        [] handler = "getUsersCount" -> UsersCountRoute
        [] handler = "getTheme" -> GetThemeRoute
        [] handler = "setTheme" -> SetThemeRoute(req.body)
        [] OTHER -> NotRouted

\* requests handled one after another
HttpNext ==
  \/ \E req \in HttpRequests : signups = <<>> /\ Handle(req)
  \/ \E i \in DOMAIN signups : SignupEmailChecked(i)
  \/ \E i \in DOMAIN signups : SignupUsernameChecked(i)
  \/ \E i \in DOMAIN signups : SignupUserCreated(i)

HttpSpec == Init /\ [][HttpNext]_vars

\* ------------------------------------------------------------ message routes
\* the requests to /api/messages and /api/messages/:id
MessageRequests == { req \in HttpRequests : req.path[2] = "messages" }

\* message requests handled one after another
MessageNext == \E req \in MessageRequests : signups = <<>> /\ Handle(req)

MessageSpec == Init /\ [][MessageNext]_vars

\* ------------------------------------------------------------ chat client
\* the data of the client's query ["/api/users/count"] after a fetch that got
\* this response: the parsed JSON body of a 200, undefined (Null) otherwise
QueryData(answer) ==
  IF answer.status = 200
    THEN Some([type |-> answer.type, body |-> answer.body])
    ELSE Null

\* usersData?.count || 0: the number the badge shows
UsersCountOf(usersData) ==
  IF usersData = Null THEN 0
  ELSE IF usersData[1].type = "object" /\ "count" \in DOMAIN usersData[1].body
    THEN usersData[1].body.count
    ELSE 0

\* ------------------------------------------------------------ side by side
\* A MemStorage and a PostgresStorage receive the same calls at the same
\* times. ret.rows holds what the two returned: <<MemStorage's value,
\* PostgresStorage's value>>.
BothCreateMessage(insertMessage) ==
  /\ currentMessageId <= MaxMessages
  /\ LET m == MemCreateMessage(memMessages, currentMessageId, insertMessage, now)
         p == PgCreateMessage(pgMessages, pgMessagesSeq, insertMessage, now)
     IN  /\ memMessages' = m.entries
         /\ currentMessageId' = m.nextId
         /\ pgMessages' = p.rows
         /\ pgMessagesSeq' = p.seq
         /\ ret' = Result("createMessage", TRUE, <<m.ret.rows[1], p.ret.rows[1]>>)
  /\ last' = NoCall
  /\ UNCHANGED <<storage, now, userVars, deletedIds>>

BothUpdateMessage(id, userId, updates) ==
  /\ LET m == MemUpdateMessage(memMessages, id, userId, updates, now)
         p == PgUpdateMessage(pgMessages, id, userId, updates, now)
     IN  /\ memMessages' = m.entries
         /\ pgMessages' = p.rows
         \* result[0] || null
         /\ \E updatedMessage \in IF p.returning = {} THEN {Null}
                                   ELSE { Some(r) : r \in p.returning } :
              ret' = Result("updateMessage", TRUE, <<m.ret.rows, updatedMessage>>)
  /\ last' = NoCall
  /\ UNCHANGED <<storage, now, currentMessageId, pgMessagesSeq, userVars, deletedIds>>

BothDeleteMessage(id, userId) ==
  /\ LET m == MemDeleteMessage(memMessages, id, userId)
         p == PgDeleteMessage(pgMessages, id, userId)
     IN  /\ memMessages' = m.entries
         /\ pgMessages' = p.rows
         /\ ret' = Result("deleteMessage", TRUE, <<m.ret.ok, p.returning # {}>>)
  /\ last' = NoCall
  /\ UNCHANGED <<storage, now, currentMessageId, pgMessagesSeq, userVars, deletedIds>>

BothGetMessageById(id) ==
  /\ ret' = Result("getMessageById", TRUE,
                   <<MemGetMessageById(memMessages, id), PgGetMessageById(pgMessages, id)>>)
  /\ last' = NoCall
  /\ UNCHANGED <<storage, now, messageVars, userVars, deletedIds>>

BothGetMessages ==
  /\ \E rows \in PgGetMessages(pgMessages) :
       ret' = Result("getMessages", TRUE, <<MemGetMessages(memMessages), rows>>)
  /\ last' = NoCall
  /\ UNCHANGED <<storage, now, messageVars, userVars, deletedIds>>

BothNext ==
  \/ Tick /\ UNCHANGED otherVars
  \/ \E insertMessage \in InsertInputs :
       BothCreateMessage(insertMessage) /\ UNCHANGED otherVars
  \/ \E id \in MessageIds, userId \in UserIds, updates \in UpdateInputs :
       BothUpdateMessage(id, userId, updates) /\ UNCHANGED otherVars
  \/ \E id \in MessageIds, userId \in UserIds :
       BothDeleteMessage(id, userId) /\ UNCHANGED otherVars
  \/ \E id \in MessageIds : BothGetMessageById(id) /\ UNCHANGED otherVars
  \/ BothGetMessages /\ UNCHANGED otherVars

BothSpec == Init /\ [][BothNext]_vars

\* ------------------------------------------------------------ attachments
\* InsertMessage payloads with every combination of the three optional
\* attachment fields: absent, the empty string, or a value
AttachmentInputs ==
  { Spread(InsertInput(1), [attachmentUrl |-> url, attachmentType |-> type,
                            attachmentName |-> name]) :
      url \in {Null, Some(""), Some("/uploads/a.gif")},
      type \in {Null, Some("gif")},
      name \in {Null, Some(""), Some("a.gif")} }

\* createMessage called with any of these payloads
AttachmentNext ==
  \/ Tick /\ UNCHANGED otherVars
  \/ \E insertMessage \in AttachmentInputs :
       CreateMessage(insertMessage) /\ UNCHANGED otherVars

AttachmentSpec == Init /\ [][AttachmentNext]_vars

\* ------------------------------------------------------------ signing in
\* sign-up payloads of two people who give the same email address, each with
\* a password of their own
AuthSignUps ==
  { [username |-> "a", email |-> "a@x.com", password |-> "secret",
     firstName |-> "A", lastName |-> "B"],
    [username |-> "b", email |-> "a@x.com", password |-> "other",
     firstName |-> "A", lastName |-> "B"] }

\* the credentials clients sign in with
AuthCredentials ==
  { [email |-> e, password |-> p] :
      e \in {"a@x.com", "b@x.com"}, p \in {"secret", "other", "wrong"} }

\* sign-ups as the process takes them up, and sign-ins
AuthNext ==
  \/ \E body \in AuthSignUps : SignupReceive(body, MayAccept(Len(signups)))
  \/ \E i \in DOMAIN signups : SignupEmailChecked(i)
  \/ \E i \in DOMAIN signups : SignupUsernameChecked(i)
  \/ \E i \in DOMAIN signups : SignupUserCreated(i)
  \/ \E credentials \in AuthCredentials : signups = <<>> /\ SigninRoute(credentials)

AuthSpec == Init /\ [][AuthNext]_vars

\* ------------------------------------------------------- database failures
\* What each PostgresStorage method returns when its query throws: the value
\* of its catch block.
PgGetUserCaught == Null

PgGetMessagesCaught == <<>>

PgUpdateMessageCaught == Null

PgDeleteMessageCaught == FALSE

PgGetUsersCountCaught == 0

\* the request gets past the route's own checks and calls the storage
CallsStorage(req) ==
  LET handler == RouteOf(req.method, req.path)
  IN  CASE handler = "updateMessage" ->
             /\ ~Falsy(Field(req.body, "userId"))
             /\ UpdateMessageSchemaParse(Rest(req.body, "userId")) # Null
        [] handler = "deleteMessage" -> ~Falsy(Field(req.body, "userId"))
        [] OTHER -> TRUE

\* A request is handled while the database is failing: the query of the
\* storage method throws, its catch block returns, and the handler answers
\* for the value it got. Nothing is written.
HandleWhileDatabaseFails(req) ==
  LET handler == RouteOf(req.method, req.path)
  IN  /\ storage = "PostgresStorage"
      /\ handler \in {"getUser", "getMessages", "updateMessage",
                       "deleteMessage", "getUsersCount"}
      /\ CallsStorage(req)
      /\ response' =
           CASE handler = "getUser" -> GetUserAnswer(PgGetUserCaught)
             [] handler = "getMessages" -> GetMessagesAnswer(PgGetMessagesCaught)
             [] handler = "updateMessage" -> UpdateMessageAnswer(PgUpdateMessageCaught)
             [] handler = "deleteMessage" -> DeleteMessageAnswer(PgDeleteMessageCaught)
             [] handler = "getUsersCount" -> UsersCountAnswer(PgGetUsersCountCaught)
      /\ ret' = NoResult
      /\ last' = NoCall
      /\ UNCHANGED readOnly

\* requests handled one after another, with a database that may fail
OutageNext ==
  \/ \E req \in HttpRequests : signups = <<>> /\ Handle(req)
  \/ \E req \in HttpRequests : signups = <<>> /\ HandleWhileDatabaseFails(req)
  \/ \E i \in DOMAIN signups : SignupEmailChecked(i)
  \/ \E i \in DOMAIN signups : SignupUsernameChecked(i)
  \/ \E i \in DOMAIN signups : SignupUserCreated(i)

OutageSpec == Init /\ [][OutageNext]_vars

\* ------------------------------------------------------------------ claims
\* C1: for every stored message m and every userId u other than m.userId,
\* updateMessage(m.id, u, patch) returns the failure value (null) and leaves m
\* unchanged, whatever other messages u owns, in both implementations.
C1_UpdateByOtherUserFails ==
  [][\A m \in Stored, u \in UserIds, updates \in UpdateInputs :
       (u # m.userId /\ UpdateMessage(m.id, u, updates))
         => (~ret'.ok /\ ret'.rows = <<>> /\ m \in Stored')]_vars

\* C2: every step in which a stored message changes or disappears is an
\* updateMessage or deleteMessage call whose supplied userId is the message's
\* userId, and no step changes the userId of a stored message.
C2_OnlyOwnerMutates ==
  [][\A m \in Stored :
       /\ m \notin Stored'
            => /\ ret'.op \in {"updateMessage", "deleteMessage"}
               /\ last'.userId = m.userId
       /\ \A n \in Stored' : n.id = m.id => n.userId = m.userId]_vars

\* C2 witness: an update by its owner has changed a message while a message of
\* the other user is stored.
C2_Witness ==
  /\ ret.op = "updateMessage" /\ ret.ok
  /\ \E m \in Stored : m.id = last.id /\ m.userId = last.userId /\ m.updatedAt # Null
  /\ \E n \in Stored : n.userId # last.userId

\* C3: a deleteMessage(id, userId) that succeeds removes the message with that
\* id and no other: every other stored message is still there, unchanged.
C3_DeleteTouchesOneRecord ==
  [][\A id \in MessageIds, u \in UserIds :
       (DeleteMessage(id, u) /\ ret'.ok)
         => Stored' = { m \in Stored : m.id # id }]_vars

\* C4: an updateMessage(id, userId, patch) that succeeds changes only content
\* and updatedAt of the message with that id, sets updatedAt non-null, and
\* changes no other stored message.
C4_UpdateChangesContentOnly ==
  [][\A id \in MessageIds, u \in UserIds, updates \in UpdateInputs :
       (UpdateMessage(id, u, updates) /\ ret'.ok)
         => /\ StoredIds' = StoredIds
            /\ \A m \in Stored :
                 IF m.id = id
                   THEN \E n \in Stored' :
                          /\ n.updatedAt # Null
                          /\ n = [m EXCEPT !.content = n.content,
                                           !.updatedAt = n.updatedAt]
                   ELSE m \in Stored']_vars

\* C5: for an id under which no message is stored and any userId,
\* updateMessage returns the failure value, deleteMessage returns false, and
\* the message store is unchanged.
C5_AbsentIdFails ==
  [][\A id \in MessageIds \ StoredIds, u \in UserIds :
       /\ \A updates \in UpdateInputs :
            UpdateMessage(id, u, updates) => (~ret'.ok /\ Stored' = Stored)
       /\ DeleteMessage(id, u) => (~ret'.ok /\ Stored' = Stored)]_vars

\* C6: after deleteMessage(m.id, m.userId) returned true for a stored message
\* m, getMessageById(m.id) finds nothing and no answer of getMessages()
\* holds a message with id m.id.
C6_DeletedIsGone ==
  [][\A m \in Stored :
       (ret'.op = "deleteMessage" /\ ret'.ok /\ last' = Call(m.id, m.userId))
         => /\ GetMessageById(m.id)' = Null
            /\ \A r \in GetMessages' : \A i \in DOMAIN r : r[i].id # m.id]_vars

\* C6 witness: a delete returned true, the id it named is the one message
\* removed so far (so the caller owned it), and another message is still stored.
C6_Witness ==
  /\ ret.op = "deleteMessage" /\ ret.ok
  /\ deletedIds = {last.id}
  /\ \E n \in Stored : n.id # last.id

\* C7: deleted is terminal: no createMessage reuses the id of a removed
\* message, no updateMessage or deleteMessage naming it succeeds, and it never
\* again shows in getMessages() or getMessageById.
C7_DeletedIsTerminal ==
  [][\A id \in deletedIds :
       /\ \A u \in UserIds, updates \in UpdateInputs :
            UpdateMessage(id, u, updates) => ~ret'.ok
       /\ \A u \in UserIds : DeleteMessage(id, u) => ~ret'.ok
       /\ \A insertMessage \in InsertInputs :
            CreateMessage(insertMessage) => ret'.rows[1].id # id
       /\ GetMessageById(id)' = Null
       /\ \A r \in GetMessages' : \A i \in DOMAIN r : r[i].id # id]_vars

C9_TiesInInsertionOrder ==
  \A r \in GetMessages :
    \A i, j \in DOMAIN r :
      (i < j /\ r[i].createdAt = r[j].createdAt) => r[i].id < r[j].id

\* C10: every createUser returns an id strictly greater than every id an
\* earlier createUser returned, and no two stored users share an id.
C10_UserIdsIncrease ==
  /\ \A i, j \in DOMAIN issuedUserIds : i < j => issuedUserIds[i] < issuedUserIds[j]
  /\ \A u, v \in StoredUsers : u.id = v.id => u = v
  /\ { u.id : u \in StoredUsers } = { issuedUserIds[i] : i \in DOMAIN issuedUserIds }

\* C10 witness: createUser has returned for the third time, the second time
\* for the same sign-up data.
C10_Witness ==
  /\ ret.op = "createUser" /\ ret.ok
  /\ Len(issuedUserIds) >= 3
  /\ \E u, v \in StoredUsers : u.id # v.id /\ u.email = v.email /\ u.username = v.username

\* a stored user has the email, or the username, of the sign-up data
EmailTaken(data) == \E u \in StoredUsers : u.email = data.email

UsernameTaken(data) == \E u \in StoredUsers : u.username = data.username

\* no two stored users share an email or a username
NoTwoUsersShare ==
  \A u, v \in StoredUsers : (u.email = v.email \/ u.username = v.username) => u = v

C12_CheckedSignupInserts ==
  [][\A i \in DOMAIN signups :
       SignupUserCreated(i)
         => /\ response'.status = 201
            /\ Cardinality(StoredUsers') = Cardinality(StoredUsers) + 1
            /\ \E u \in StoredUsers' \ StoredUsers :
                 /\ u.id = response'.body.id
                 /\ u.email = signups[i].data.email]_vars

\* C12 witness: the second of two sign-ups with one email has just been
\* answered 201, and two users with that email are stored.
C12_Witness ==
  /\ response.status = 201
  /\ \E u, v \in StoredUsers :
       /\ u.id # v.id
       /\ u.email = v.email
       /\ u.email = response.body.email

\* C13: setActiveTheme with a themeId outside the seeded ids 1..6 fails with
\* the 'theme not found' error and leaves what getActiveTheme returns as it
\* was.
C13_UnknownThemeFails ==
  [][\A themeId \in (0..MaxThemeId) \ (1..6) :
       SetActiveTheme(themeId)
         => /\ ~ret'.ok
            /\ ret'.rows = <<ThemeNotFound(themeId)>>
            /\ GetActiveTheme' = GetActiveTheme]_vars

\* C13 witness: a setActiveTheme has just failed while a theme other than
\* the initial one is the active one.
C13_Witness ==
  /\ ret.op = "setActiveTheme" /\ ~ret.ok
  /\ GetActiveTheme.id # 1

\* the themes of the catalogue
Catalogue == { themes[i] : i \in DOMAIN themes }

\* C14: getActiveTheme returns a theme of the six-theme catalogue: theme 1
\* at first, after a successful setActiveTheme(themeId) the theme with that
\* id, and the same theme after every other step; the catalogue never
\* changes.
C14_ActiveThemeIsLastSet ==
  /\ GetActiveTheme.id = 1
  /\ [](/\ GetActiveTheme \in Catalogue
        /\ { t.id : t \in Catalogue } = 1..6
        /\ Len(themes) = 6)
  /\ [][/\ themes' = themes
         /\ IF ret'.op = "setActiveTheme" /\ ret'.ok
              THEN /\ GetActiveTheme' = ret'.rows[1]
                   /\ \A themeId \in 0..MaxThemeId :
                        SetActiveTheme(themeId) => GetActiveTheme'.id = themeId
              ELSE GetActiveTheme' = GetActiveTheme]_vars

\* C14 witness: a successful setActiveTheme has just made the last theme of
\* the catalogue the active one.
C14_Witness ==
  /\ ret.op = "setActiveTheme" /\ ret.ok
  /\ GetActiveTheme = themes[6]
  /\ GetActiveTheme.id = 6

\* getUsersCount() counts the stored user: it reports one more than it would
\* without that user
Counts(user) == GetUsersCount = GetUsersCountWithout(user) + 1

\* the time of the user's last heartbeat, Null when there was none
LastBeat(user) ==
  LET lastActive == MapGet(userActivity, user.id)
  IN  IF lastActive = Null THEN Null ELSE Some(lastActive[1].at)

\* C15: a registered user whose last heartbeat was at T is counted by
\* getUsersCount at time t exactly when t - T is less than five minutes.
C15_CountedWithinWindow ==
  \A user \in StoredUsers :
    LastBeat(user) # Null
      => (Counts(user) <=> now - LastBeat(user)[1] < ActiveWindow)

C17_OnlineUsersListsEveryone ==
  \A r \in GetOnlineUsers :
    /\ Len(r) = Cardinality(StoredUsers)
    /\ { r[i].id : i \in DOMAIN r } = { user.id : user \in StoredUsers }
    /\ \A i \in DOMAIN r :
         /\ "password" \notin DOMAIN r[i]
         /\ "lastActivity" \in DOMAIN r[i]
         /\ \A user \in StoredUsers :
              user.id = r[i].id => r[i].lastActivity = LastBeat(user)

\* the objects of the response body
ResponseObjects ==
  IF response.type = "object" THEN {response.body}
  ELSE IF response.type = "array" THEN { response.body[i] : i \in DOMAIN response.body }
  ELSE {}

\* the user lists the storage hands out in this state
UserLists ==
  GetOnlineUsers \cup (IF storage = "PostgresStorage" THEN PgGetAllUsers(pgUsers) ELSE {})

\* C18: after any sequence of requests the body of the response holds no
\* password field, and neither does an entry of a user list.
C18_NoPasswordInResponse ==
  /\ \A o \in ResponseObjects : "password" \notin DOMAIN o
  /\ \A list \in UserLists : \A i \in DOMAIN list : "password" \notin DOMAIN list[i]

\* C18 witness: a sign-in has just been answered 200 with the user that
\* authenticateUser returned with its password.
C18_Witness ==
  /\ ret.op = "authenticateUser" /\ ret.ok
  /\ ret.rows[1].password = "secret"
  /\ response.status = 200
  /\ response.body.id = ret.rows[1].id

\* the PATCH and DELETE requests of userId for the message id
MutationRequests(id, userId) ==
  { req \in HttpRequests :
      /\ req.method \in {"PATCH", "DELETE"}
      /\ req.path = <<"api", "messages", ToString(id)>>
      /\ req.body \in { [userId |-> userId, content |-> "hello world"],
                         [userId |-> userId] }
      /\ req.method = "PATCH" => "content" \in DOMAIN req.body }

\* C19: a PATCH or DELETE /api/messages/:id by a requester who does not own
\* message id is answered 404 'Message not found or unauthorized', the same
\* whether another user's message has that id or no message has it.
C19_NonOwnerGets404 ==
  [][\A id \in MessageIds, userId \in UserIds :
       (~\E m \in Stored : m.id = id /\ m.userId = userId)
         => \A req \in MutationRequests(id, userId) :
              (signups = <<>> /\ Handle(req))
                => response' = Response(404, [message |-> "Message not found or unauthorized"])]_vars

\* C20: GET /api/users/count reaches the count handler and is answered 200
\* with the number getUsersCount() returns.
C20_CountRouteAnswers ==
  [][LET req == Request("GET", <<"api", "users", "count">>, Null)
     IN  (signups = <<>> /\ Handle(req))
           => /\ RouteOf(req.method, req.path) = "getUsersCount"
              /\ response' = ResponseNumber(200, GetUsersCount)]_vars

\* C21: POST /api/users/:id/activity is answered 200 and records the time
\* of the request as the user's last heartbeat (without which no user ever
\* stops being counted by getUsersCount).
C21_HeartbeatRouteRecords ==
  [][\A id \in UserIds :
       LET req == Request("POST", <<"api", "users", ToString(id), "activity">>, Null)
       IN  (signups = <<>> /\ Handle(req))
             => /\ response'.status = 200
                /\ MapGet(userActivity', id) = Some(Beat(id, now))]_vars

\* the bodies of POST /api/chat/theme that clients send
ThemeBodies ==
  { req.body : req \in { r \in HttpRequests :
                           RouteOf(r.method, r.path) = "setTheme" } }

\* C22: POST /api/chat/theme with a number that is no theme of the catalogue
\* is answered 404, with a missing, zero or non-numeric themeId it is
\* answered 400, and in both cases the active theme stays what it was.
C22_BadThemeRejected ==
  [][\A body \in ThemeBodies :
       LET themeId == Field(body, "themeId")
           numeric == themeId # Null /\ themeId[1].type = "number"
           unknown == /\ numeric
                      /\ themeId[1].value # 0
                      /\ \A theme \in Catalogue : theme.id # themeId[1].value
           invalid == ~numeric \/ themeId[1].value = 0
       IN  (signups = <<>>
              /\ Handle(Request("POST", <<"api", "chat", "theme">>, body)))
             => /\ unknown => response'.status = 404
                /\ invalid => response'.status = 400
                /\ (unknown \/ invalid) => GetActiveTheme' = GetActiveTheme]_vars

\* the requests of which the claim speaks: the reads of messages, users and
\* the count, and the changes of a message
StoreRequests ==
  { req \in HttpRequests :
      \/ req.method = "GET" /\ req.path \in {<<"api", "messages">>, <<"api", "users", "1">>,
                                               <<"api", "users", "count">>}
      \/ req.method \in {"PATCH", "DELETE"} }

\* C23: a request whose storage call fails is answered 500, never 200 and
\* never 404.
C23_StorageFailureIs500 ==
  [][\A req \in StoreRequests :
       (signups = <<>> /\ HandleWhileDatabaseFails(req))
         => response'.status = 500]_vars

\* C24: signing in returns a user exactly when some stored user has the
\* email and the password of the credentials, and then it returns such a
\* user; otherwise it returns null and the route answers 401; the users
\* stay as they are.
C24_AuthenticateExactMatch ==
  [][\A credentials \in AuthCredentials :
       LET matching == { user \in StoredUsers :
                           /\ user.email = credentials.email
                           /\ user.password = credentials.password }
       IN  (signups = <<>> /\ SigninRoute(credentials))
             => /\ ret'.op = "authenticateUser"
                /\ ret'.ok <=> matching # {}
                /\ ret'.ok => /\ ret'.rows[1] \in matching
                              /\ response'.status = 200
                /\ ~ret'.ok => /\ ret'.rows = Null
                               /\ response'.status = 401
                /\ StoredUsers' = StoredUsers]_vars

\* C25: a successful updateMessage(id, userId, patch) called a second time,
\* at any later time, succeeds again and leaves the same messages as the
\* first call left, except for the updatedAt of message id.
C25_UpdateTwiceIsOnce ==
  \A id \in MessageIds, userId \in UserIds, updates \in UpdateInputs, later \in Times :
    LET once == UpdateMessageOn(MessageStore, id, userId, updates, now)
        twice == UpdateMessageOn(once, id, userId, updates, later)
    IN  once.ok
          => /\ twice.ok
             /\ { m.id : m \in MessagesOf(twice) } = { m.id : m \in MessagesOf(once) }
             /\ \A m \in MessagesOf(twice) :
                  \E n \in MessagesOf(once) :
                    IF m.id = id
                      THEN [m EXCEPT !.updatedAt = n.updatedAt] = n
                      ELSE m = n

\* the three attachment fields of a message are all null or all set
AllOrNothing(m) ==
  \/ m.attachmentUrl = Null /\ m.attachmentType = Null /\ m.attachmentName = Null
  \/ m.attachmentUrl # Null /\ m.attachmentType # Null /\ m.attachmentName # Null

\* C26: createMessage stores a message whose id is greater than every id
\* issued before and whose updatedAt is null, and afterwards the attachment
\* fields of every stored message are all null or all set.
C26_CreatedMessageWellFormed ==
  [][\A insertMessage \in AttachmentInputs :
       CreateMessage(insertMessage)
         => /\ ret'.rows[1] \in Stored'
            /\ \A id \in StoredIds \cup deletedIds : ret'.rows[1].id > id
            /\ ret'.rows[1].updatedAt = Null
            /\ \A m \in Stored' : AllOrNothing(m)]_vars

\* the PATCH and DELETE requests of /api/messages/:id without userId, and the
\* PATCH requests without content
BadMutations ==
  { req \in HttpRequests :
      /\ req.method \in {"PATCH", "DELETE"}
      /\ \/ "userId" \notin DOMAIN req.body
         \/ req.method = "PATCH" /\ "content" \notin DOMAIN req.body }

\* C27: a PATCH or DELETE of /api/messages/:id whose body has no userId is
\* answered 400 and the storage is not called; a PATCH whose body has no
\* valid content is answered 400; in each case the messages stay as they are.
C27_BadMutationIs400 ==
  [][\A req \in BadMutations :
       (signups = <<>> /\ Handle(req))
         => /\ response'.status = 400
            /\ "userId" \notin DOMAIN req.body => ret' = NoResult
            /\ memMessages' = memMessages
            /\ pgMessages' = pgMessages]_vars

\* a request without userId has just been answered 400 while messages are stored
C27_Witness ==
  /\ response = Response(400, [message |-> "User ID is required"])
  /\ ret = NoResult
  /\ Stored # {}

\* C28: MemStorage and PostgresStorage, given the same message calls, have
\* returned the same value from the last call and hold the same messages.
C28_StoragesAgree ==
  /\ ret.op # "none" => ret.rows[1] = ret.rows[2]
  /\ { memMessages[i] : i \in 1..Len(memMessages) } = pgMessages

\* C29: the theme getActiveTheme() returns has isActive = true and every
\* other theme of the catalogue has isActive = false.
C29_FlagAgreesWithPointer ==
  /\ GetActiveTheme.isActive
  /\ \A theme \in Catalogue : theme.id # GetActiveTheme.id => ~theme.isActive

\* C30: after the client has fetched GET /api/users/count, the number its
\* "N online" badge shows is the value of getUsersCount().
C30_BadgeShowsUsersCount ==
  [][LET req == Request("GET", <<"api", "users", "count">>, Null)
     IN  (signups = <<>> /\ Handle(req))
           => UsersCountOf(QueryData(response')) = GetUsersCount]_vars

====
